---- MODULE Spec2Model ----
(***************************************************************************)
(* Model of the trading bot: the entry point (main, scrape,                 *)
(* processNewEntries, monitorTokenPrice, sellToken) and the ExpandSwap      *)
(* client (getPriceQuote, approveToken, executeSwap).                       *)
(*                                                                          *)
(* Specifications, over one set of variables:                               *)
(*   SpecMonitor  one monitorTokenPrice call                                *)
(*   SpecBatch    processNewEntries from line 182, on given positions       *)
(*   Spec         processNewEntries as main calls it (the buy loop)         *)
(*   SpecSwap     one executeSwap call                                      *)
(*   SpecMain     main and the processNewEntries calls it makes             *)
(*                                                                          *)
(* Conventions.                                                             *)
(*  - A JavaScript value is a record [t |-> type, ...]: a number is         *)
(*    [t |-> "number", v |-> n], a decimal string is [t |-> "string",       *)
(*    v |-> n] (the string is the decimal numeral of n), and undefined is   *)
(*    [t |-> "undefined"].                                                  *)
(*  - The stop-loss fraction is kept in thousandths (0.001 is 1, 0.10 is    *)
(*    100) and the products of the drop check are computed exactly; the     *)
(*    rounding of IEEE doubles is not modelled.                             *)
(*  - A token of boughtTokens is identified by its index in that array.     *)
(***************************************************************************)
EXTENDS Integers, Sequences, FiniteSets, TLC

\* ------------------------------------------------------------------ bounds
\* Polls fed to the monitor under test (SpecMonitor).
MaxPolls == 4
\* Positions of a batch (SpecBatch).
MaxTokens == 3
\* Candidates handed to processNewEntries (Spec).
MaxEntries == 3

\* -------------------------------------------------------- program constants
\* stopLossPercentage = 0.001, in thousandths.
StopLossDefault == 1
\* Denominator of the thousandths representation.
Mille == 1000

\* ------------------------------------------------------------ input domains
\* amountsOut[1] values the quote service returns (decimal strings).
QuoteValues == {80, 100, 108, 115, 120}
\* The values quoted to the monitors of a batch.
BatchQuoteValues == {100, 120}
\* Stop-loss fractions a monitor is started with: the default 0.001 and 0.10.
StopLossFractions == {StopLossDefault, 100}

\* Outcomes of the HTTP request of one getPriceQuote call:
\*   throw : axios.get rejects (transport or HTTP error)
\*   nodata: a body without data.amountsOut
\*   short : data.amountsOut has no element 1
\*   ok    : data.amountsOut[1] is the decimal string of v
Responses ==
  {[kind |-> "throw", v |-> 0], [kind |-> "nodata", v |-> 0], [kind |-> "short", v |-> 0]}
    \cup {[kind |-> "ok", v |-> q] : q \in QuoteValues}

BatchResponses ==
  {[kind |-> "throw", v |-> 0]} \cup {[kind |-> "ok", v |-> q] : q \in BatchQuoteValues}

\* The answers to the final quote of a sell (line 232).
FinalQuoteResponses ==
  {[kind |-> "throw", v |-> 0], [kind |-> "nodata", v |-> 0], [kind |-> "ok", v |-> 100]}

\* Line 156: the contract_address of every position, whatever the candidate's was.
ContractAddress == "0xC02aaA39b223FE8D0A0e5C4F27eAD9083C756Cc2"

\* ------------------------------------------------------- JavaScript values
Num(n) == [t |-> "number", v |-> n]
Str(n) == [t |-> "string", v |-> n]
Undefined == [t |-> "undefined", v |-> 0]

\* The decimal numeral of n as a sequence of digits.
RECURSIVE Digits(_)
Digits(n) == IF n < 10 THEN <<n>> ELSE Append(Digits(n \div 10), n % 10)

\* a < b in the order of strings (code unit by code unit, a proper prefix first).
StrLT(a, b) ==
  \E k \in 1..Len(b) :
    /\ k - 1 <= Len(a)
    /\ \A j \in 1..(k - 1) : a[j] = b[j]
    /\ (k > Len(a) \/ a[k] < b[k])

\* x < y as JavaScript evaluates it: two strings are compared as strings, anything
\* else as numbers, and a comparison with undefined (NaN) is false.
JsLT(x, y) ==
  IF x.t = "undefined" \/ y.t = "undefined" THEN FALSE
  ELSE IF x.t = "string" /\ y.t = "string" THEN StrLT(Digits(x.v), Digits(y.v))
  ELSE x.v < y.v

JsGT(x, y) == JsLT(y, x)

\* ------------------------------------------------------ ExpandSwap client
\* getPriceQuote(dexId, path, amountIn): path.join(',') is evaluated inside the try
\* block, so a path that is no array throws like a failed request does.
GetPriceQuote(path, resp) ==
  IF path.t # "array" \/ resp.kind = "throw"
  THEN [threw |-> TRUE, data |-> resp]
  ELSE [threw |-> FALSE, data |-> resp]

\* A token path [from, to] (an array); only its type matters to the client.
TokenPath == [t |-> "array", v |-> 0]

\* What the swap service does during one executeSwap call:
\*   approve: "ok" | "rejected" (a status-400 answer to the approval's prepare or
\*            send) | "throw"
\*   quote  : "ok" | "throw"     (the request of getPriceQuote)
\*   prepare: "ok" | "rejected" (prepareTransaction answers with status 400) | "throw"
\*   sign   : "ok" | "throw"
\*   send   : "ok" | "rejected" (sendTransaction answers with status 400) | "throw"
\* A swap whose preparation was rejected is never accepted when sent.
SwapOutcomes ==
  {o \in [approve : {"ok", "rejected", "throw"}, quote : {"ok", "throw"},
          prepare : {"ok", "rejected", "throw"}, sign : {"ok", "throw"},
          send : {"ok", "rejected", "throw"}] :
     o.prepare = "rejected" => o.send # "ok"}

\* approveToken: a status-400 answer is logged and the method returns undefined; only
\* an exception is rethrown.
ApproveToken(o) ==
  [threw |-> o.approve = "throw", approved |-> o.approve = "ok"]

\* executeSwap: approve, quote, prepare, sign, send. It throws when one of them
\* throws; a status-400 answer to the send is logged and the method returns.
\*   sent    : the swap transaction was handed to sendTransaction
\*   accepted: the swap service accepted the swap transaction
\*   rejected: the service answered the approval or the swap with status 400
ExecuteSwap(o) ==
  LET a == ApproveToken(o)
      q == GetPriceQuote(TokenPath, [kind |-> IF o.quote = "ok" THEN "ok" ELSE "throw", v |-> 0])
      reachedPrepare == ~a.threw /\ ~q.threw
      reachedSend == reachedPrepare /\ o.prepare # "throw" /\ o.sign = "ok"
  IN [threw    |-> ~reachedSend \/ o.send = "throw",
      approved |-> a.approved,
      sent     |-> reachedSend,
      accepted |-> reachedSend /\ o.send = "ok",
      rejected |-> \/ o.approve = "rejected"
                   \/ reachedPrepare /\ o.prepare = "rejected"
                   \/ reachedSend /\ o.send = "rejected"]

\* The results executeSwap can end with.
SwapResults == {ExecuteSwap(o) : o \in SwapOutcomes}

\* ----------------------------------------------------- monitorTokenPrice
\* priceQuote.data.amountsOut[1] of a response that has amountsOut.
AmountsOut1OrZero(resp) == IF resp.kind = "ok" THEN Str(resp.v) ELSE Str(0)
AmountsOut1(resp) == IF resp.kind = "ok" THEN Str(resp.v) ELSE Undefined

\* The try block of one loop iteration fails: the request threw, or reading
\* data.amountsOut of the body threw a TypeError.
QuoteFailed(q) == q.threw \/ q.data.kind = "nodata"

\* if (usdtValue > maxUSDTValue) maxUSDTValue = usdtValue
UpdateMax(usdtValue, maxUSDTValue) ==
  IF JsGT(usdtValue, maxUSDTValue) THEN usdtValue ELSE maxUSDTValue

\* usdtValue < maxUSDTValue * (1 - stopLossPercentage): the product is a number, so
\* the comparison is numeric; f is in thousandths.
DropCheckInclusive(usdtValue, maxUSDTValue, f) ==
  /\ usdtValue.t # "undefined"
  /\ usdtValue.v * Mille <= maxUSDTValue.v * (Mille - f)
DropCheck(usdtValue, maxUSDTValue, f) ==
  /\ usdtValue.t # "undefined"
  /\ usdtValue.v * Mille < maxUSDTValue.v * (Mille - f)

\* One iteration with the drop check made against the mark as it was before the
\* update of line 211.
MonitorIterationOldCeiling(maxUSDTValue, f, resp) ==
  LET q == GetPriceQuote(TokenPath, resp)
      usdtValue == AmountsOut1(q.data)
  IN IF QuoteFailed(q)
     THEN [max |-> maxUSDTValue, sell |-> FALSE]
     ELSE [max |-> UpdateMax(usdtValue, maxUSDTValue),
           sell |-> DropCheck(usdtValue, maxUSDTValue, f)]

\* One iteration of the while loop on the response resp: the high-water mark it
\* leaves and whether it returns the sell signal.
MonitorIteration(maxUSDTValue, f, resp) ==
  LET q == GetPriceQuote(TokenPath, resp)
      usdtValue == AmountsOut1(q.data)
      newMax == UpdateMax(usdtValue, maxUSDTValue)
  IN IF QuoteFailed(q)
     THEN [max |-> maxUSDTValue, sell |-> FALSE]
     ELSE [max |-> newMax, sell |-> DropCheck(usdtValue, newMax, f)]

VARIABLES
  stopLossPercentage, \* token -> the monitor's stop-loss fraction, in thousandths
  maxUSDTValue,       \* token -> the monitor's high-water mark (a JavaScript value)
  mpc,                \* token -> "fetch" | "sleep" | "returned"
  quotes,             \* the responses fed to the monitor under test, in order
  newEntries,         \* processNewEntries' argument: the candidates' blockchains
  entryIdx,           \* the candidate the for loop of line 133 is at
  buyStage,           \* "swap" | "quote": the await the loop body is at
  buyLog,             \* the executeSwap calls of the loop: [entry, swap]
  boughtTokens,       \* the positions: a sequence of [entry, blockchain]
  pc,                 \* processNewEntries: "none" | "buy" | "race" | "sellPrimary"
                      \*   | "sweep" | "done" | "rejected"
  racePromise,        \* the token Promise.race settled with (NoToken: pending)
  arrivals,           \* the tokens whose monitor promise settled, in order
  tokenToSell,        \* line 188 (NoToken: not assigned)
  sellLog,            \* the tokens sellToken was called for, in call order
  sellState,          \* token -> "none" | "swap" | "quote" | "returned" | "threw"
  swapRejected,       \* token -> the swap service answered the approval or the swap
                      \*   of its sell with status 400
  manifest,           \* the lines sellToken logs at line 234 (processNewEntries
                      \*   returns nothing): a sequence of [address, amount]
  swapCall,           \* executeSwap under test: what the swap service does (SpecSwap)
  swapResult,         \* executeSwap under test: how the call ended (NoResult: running)
  mainPc,             \* main: "none" | "scrape" | "sleep"
  cycleLog,           \* main: per discovery cycle, [scrape, entries, invoked]
  batches             \* main: per discovery cycle, its processNewEntries call

monitorVars == <<stopLossPercentage, maxUSDTValue, mpc>>
buyVars == <<newEntries, entryIdx, buyStage, buyLog, boughtTokens>>
sellVars == <<racePromise, arrivals, tokenToSell, sellLog, sellState, swapRejected>>
swapVars == <<swapCall, swapResult>>
mainVars == <<mainPc, cycleLog, batches>>
restVars == <<swapVars, mainVars>>
vars == <<monitorVars, quotes, buyVars, pc, sellVars, manifest, restVars>>

NoToken == 0
NoResult == [threw |-> FALSE, approved |-> FALSE, sent |-> FALSE, accepted |-> FALSE,
             rejected |-> FALSE, running |-> TRUE]

\* The state of the parts of the program a specification does not run.
NoSwapUnderTest ==
  /\ swapCall = [approve |-> "ok", quote |-> "ok", prepare |-> "ok", sign |-> "ok",
                 send |-> "ok"]
  /\ swapResult = NoResult
NoMain == mainPc = "none" /\ cycleLog = <<>> /\ batches = <<>>

Tokens == DOMAIN mpc

\* Lines 205-224 for token i: the request completes with resp.
MonitorPoll(i, resp) ==
  LET r == MonitorIteration(maxUSDTValue[i], stopLossPercentage[i], resp)
  IN /\ mpc[i] = "fetch"
     /\ maxUSDTValue' = [maxUSDTValue EXCEPT ![i] = r.max]
     /\ mpc' = [mpc EXCEPT ![i] = IF r.sell THEN "returned" ELSE "sleep"]
     /\ UNCHANGED stopLossPercentage

\* A monitor whose loop goes on after the sell of its token threw (the shape of
\* monitorPriceAndSell, lines 58-90: the catch logs and the loop polls again).
MonitorWakeAfterThrow(i) ==
  /\ mpc[i] = "sleep" \/ (mpc[i] = "returned" /\ sellState[i] = "threw")
  /\ mpc' = [mpc EXCEPT ![i] = "fetch"]
  /\ UNCHANGED <<stopLossPercentage, maxUSDTValue>>

\* Line 224: the 5 s timer fires and the loop starts its next iteration.
MonitorWake(i) ==
  /\ mpc[i] = "sleep"
  /\ mpc' = [mpc EXCEPT ![i] = "fetch"]
  /\ UNCHANGED <<stopLossPercentage, maxUSDTValue>>

\* ---------------------------------------------- one monitor under test
\* monitorTokenPrice called for one token with a stop-loss fraction; no
\* processNewEntries is running.
InitMonitor ==
  /\ stopLossPercentage \in [{1} -> StopLossFractions]
  /\ maxUSDTValue = [i \in {1} |-> Num(0)]
  /\ mpc = [i \in {1} |-> "fetch"]
  /\ quotes = <<>>
  /\ newEntries = <<>> /\ entryIdx = 0 /\ buyStage = "swap" /\ buyLog = <<>>
  /\ boughtTokens = <<>>
  /\ pc = "none"
  /\ racePromise = NoToken /\ arrivals = <<>> /\ tokenToSell = NoToken
  /\ sellLog = <<>>
  /\ sellState = [i \in {1} |-> "none"]
  /\ swapRejected = [i \in {1} |-> FALSE]
  /\ manifest = <<>>
  /\ NoSwapUnderTest /\ NoMain

FeedQuote ==
  \E resp \in Responses :
    /\ Len(quotes) < MaxPolls
    /\ MonitorPoll(1, resp)
    /\ quotes' = Append(quotes, resp)
    /\ UNCHANGED <<manifest, restVars, buyVars, pc, sellVars>>

Delay == MonitorWake(1) /\ UNCHANGED <<manifest, restVars, quotes, buyVars, pc, sellVars>>

NextMonitor == FeedQuote \/ Delay

SpecMonitor == InitMonitor /\ [][NextMonitor]_vars

\* ------------------------------------- processNewEntries, lines 182-198
\* Promise.race over the monitor promises: it settles with the first promise that
\* settles, and a later settlement changes nothing.
RaceSettleLast(settled, i) == i
RaceSettle(settled, i) == IF settled = NoToken THEN i ELSE settled

\* The next token of `for (const token of boughtTokens)` after index `after` that
\* passes `token !== tokenToSell` (NoToken: the loop is over).
SweepNext(after, primary) ==
  LET rest == {k \in Tokens : k > after /\ k # primary}
  IN IF rest = {} THEN NoToken ELSE CHOOSE k \in rest : \A j \in rest : k <= j

\* The token whose sellToken call is awaited.
InFlight == CHOOSE t \in Tokens : sellState[t] \in {"swap", "quote"}

\* Lines 205-224 for a token of the batch; a monitor that returns settles its
\* monitor promise (line 185), and with it the race.
BatchPoll ==
  \E i \in Tokens, resp \in BatchResponses :
    /\ pc # "none"
    /\ MonitorPoll(i, resp)
    /\ racePromise' = IF mpc'[i] = "returned" THEN RaceSettle(racePromise, i)
                      ELSE racePromise
    /\ arrivals' = IF mpc'[i] = "returned" THEN Append(arrivals, i) ELSE arrivals
    /\ UNCHANGED <<manifest, restVars, quotes, buyVars, pc, tokenToSell, sellLog,
                   sellState, swapRejected>>

BatchWake ==
  \E i \in Tokens :
    /\ pc # "none"
    /\ MonitorWake(i)
    /\ UNCHANGED <<manifest, restVars, quotes, buyVars, pc, sellVars>>

\* Lines 188-191 without the race: the first token is sold as soon as the monitors
\* are started.
RaceResumeNoRace ==
  /\ pc = "race"
  /\ tokenToSell' = 1
  /\ sellLog' = Append(sellLog, 1)
  /\ sellState' = [sellState EXCEPT ![1] = "swap"]
  /\ pc' = "sellPrimary"
  /\ UNCHANGED <<manifest, restVars, monitorVars, quotes, buyVars, racePromise, arrivals,
                 swapRejected>>

\* Lines 188-191 without the await of line 191: sellToken is called for the primary
\* token and at once for the first token of the sweep.
RaceResumeNoAwait ==
  LET next == SweepNext(0, racePromise)
  IN /\ pc = "race"
     /\ racePromise # NoToken
     /\ tokenToSell' = racePromise
     /\ sellLog' = IF next = NoToken THEN <<racePromise>> ELSE <<racePromise, next>>
     /\ sellState' = [t \in Tokens |-> IF t \in {racePromise, next} THEN "swap" ELSE sellState[t]]
     /\ pc' = IF next = NoToken THEN "sellPrimary" ELSE "sweep"
     /\ UNCHANGED <<manifest, restVars, monitorVars, quotes, buyVars, racePromise, arrivals,
                    swapRejected>>

\* Lines 188-191: the await of the race resumes with the token the race settled
\* with, and sellToken is called for it (it runs up to the await of executeSwap).
RaceResume ==
  /\ pc = "race"
  /\ racePromise # NoToken
  /\ tokenToSell' = racePromise
  /\ sellLog' = Append(sellLog, racePromise)
  /\ sellState' = [sellState EXCEPT ![racePromise] = "swap"]
  /\ pc' = "sellPrimary"
  /\ UNCHANGED <<manifest, restVars, monitorVars, quotes, buyVars, racePromise, arrivals,
                 swapRejected>>

\* sellToken, line 230: executeSwap completes. When it throws, sellToken throws, and
\* so does processNewEntries (lines 191 and 196 are in no try block).
SellSwapDone ==
  \E r \in SwapResults :
    LET t == InFlight
    IN /\ pc \in {"sellPrimary", "sweep"}
       /\ sellState[t] = "swap"
       /\ swapRejected' = [swapRejected EXCEPT ![t] = r.rejected]
       /\ sellState' = [sellState EXCEPT ![t] = IF r.threw THEN "threw" ELSE "quote"]
       /\ pc' = IF r.threw THEN "rejected" ELSE pc
       /\ UNCHANGED <<manifest, restVars, monitorVars, quotes, buyVars, racePromise,
                      arrivals, tokenToSell, sellLog>>

\* sellToken, lines 232-235: the final quote completes and sellToken returns or
\* throws; on a return processNewEntries goes on to the next token of the sweep
\* (lines 194-198) and calls sellToken for it, or returns.
SellQuoteDone ==
  \E resp \in FinalQuoteResponses :
    LET t == InFlight
        q == GetPriceQuote(TokenPath, resp)
        next == SweepNext(IF pc = "sellPrimary" THEN 0 ELSE t, tokenToSell)
        finalUSDTAmount == AmountsOut1(q.data)
    IN /\ pc \in {"sellPrimary", "sweep"}
       /\ sellState[t] = "quote"
       /\ IF QuoteFailed(q)
          THEN /\ sellState' = [sellState EXCEPT ![t] = "threw"]
               /\ pc' = "rejected"
               /\ UNCHANGED <<sellLog, manifest>>
          ELSE /\ manifest' = Append(manifest, [address |-> ContractAddress,
                                                   amount |-> finalUSDTAmount])
               /\ IF next = NoToken
                  THEN /\ sellState' = [sellState EXCEPT ![t] = "returned"]
                       /\ pc' = "done"
                       /\ UNCHANGED sellLog
                  ELSE /\ sellState' = [sellState EXCEPT ![t] = "returned", ![next] = "swap"]
                       /\ pc' = "sweep"
                       /\ sellLog' = Append(sellLog, next)
       /\ UNCHANGED <<restVars, monitorVars, quotes, buyVars, racePromise, arrivals,
                      tokenToSell, swapRejected>>

\* processNewEntries at line 188 with n positions in boughtTokens: line 183 has
\* started one monitor per token (with the default stop-loss fraction), each at its
\* first request.
InitBatch ==
  /\ \E n \in 1..MaxTokens :
       /\ boughtTokens = [k \in 1..n |-> [entry |-> k, blockchain |-> "Polygon"]]
       /\ stopLossPercentage = [i \in 1..n |-> StopLossDefault]
       /\ maxUSDTValue = [i \in 1..n |-> Num(0)]
       /\ mpc = [i \in 1..n |-> "fetch"]
       /\ sellState = [i \in 1..n |-> "none"]
       /\ swapRejected = [i \in 1..n |-> FALSE]
       /\ newEntries = [k \in 1..n |-> boughtTokens[k].blockchain]
       /\ entryIdx = n + 1
  /\ buyStage = "swap" /\ buyLog = <<>>
  /\ quotes = <<>>
  /\ manifest = <<>>
  /\ NoSwapUnderTest /\ NoMain
  /\ pc = "race"
  /\ racePromise = NoToken /\ arrivals = <<>> /\ tokenToSell = NoToken
  /\ sellLog = <<>>

NextBatch == BatchPoll \/ BatchWake \/ RaceResume \/ SellSwapDone \/ SellQuoteDone

SpecBatch == InitBatch /\ [][NextBatch]_vars

\* ------------------------------------- processNewEntries, lines 102-188
\* The keys of chainIdMapping, dexIdMapping and USDTMapping.
ChainIdKeys ==
  {"Ethereum", "Binance Smart Chain", "Polygon", "Avalanche", "Arbitrum", "Fantom"}
DexIdKeys ==
  {"Ethereum", "Binance Smart Chain", "Avalanche", "Polygon", "Arbitrum", "Base", "Solana"}
USDTKeys == {"Ethereum", "Solana", "Polygon"}

\* Line 141 does not skip the blockchain.
Mapped(blockchain) ==
  blockchain \in ChainIdKeys /\ blockchain \in DexIdKeys /\ blockchain \in USDTKeys

\* The blockchains of the candidates handed in: two with every mapping, one without
\* a chain id, one with a DEX id alone.
EntryChains == {"Ethereum", "Polygon", "Solana", "Base"}

\* amountIn, the string main passes (line 243).
AmountIn == [t |-> "string", v |-> 1000]

\* The first candidate at or after k that line 141 does not skip (past the end of
\* entries: none).
NextMapped(entries, k) ==
  LET cand == {j \in k..Len(entries) : Mapped(entries[j])}
  IN IF cand = {} THEN Len(entries) + 1 ELSE CHOOSE j \in cand : \A i \in cand : j <= i

\* The loop goes on after candidate k, with the positions `bought` and the
\* executeSwap calls `log` so far: it skips the candidates without a mapping and
\* calls executeSwap for the next one (line 161), or it ends, and lines 183-188
\* start a monitor per position and await the race.
BuyAdvance(k, bought, log) ==
  LET j == NextMapped(newEntries, k + 1)
      n == Len(bought)
  IN /\ entryIdx' = j
     /\ boughtTokens' = bought
     /\ buyStage' = "swap"
     /\ IF j <= Len(newEntries)
        THEN /\ buyLog' = Append(log, [entry |-> j, swap |-> "pending"])
             /\ pc' = "buy"
             /\ UNCHANGED <<monitorVars, sellState, swapRejected>>
        ELSE /\ buyLog' = log
             /\ pc' = "race"
             /\ stopLossPercentage' = [i \in 1..n |-> StopLossDefault]
             /\ maxUSDTValue' = [i \in 1..n |-> Num(0)]
             /\ mpc' = [i \in 1..n |-> "fetch"]
             /\ sellState' = [i \in 1..n |-> "none"]
             /\ swapRejected' = [i \in 1..n |-> FALSE]

\* Line 161: the executeSwap of the buy completes. When it throws, line 177 catches
\* and the loop goes on; otherwise line 164 calls getPriceQuote.
BuySwapDone ==
  \E r \in SwapResults :
    /\ pc = "buy"
    /\ buyStage = "swap"
    /\ IF r.threw
       THEN BuyAdvance(entryIdx, boughtTokens,
                       [buyLog EXCEPT ![Len(buyLog)].swap = "threw"])
       ELSE /\ buyStage' = "quote"
            /\ buyLog' = [buyLog EXCEPT ![Len(buyLog)].swap = "returned"]
            /\ UNCHANGED <<monitorVars, entryIdx, boughtTokens, pc, sellState,
                           swapRejected>>
    /\ UNCHANGED <<manifest, restVars, quotes, newEntries, racePromise, arrivals,
                   tokenToSell, sellLog>>

\* Lines 164-175: getPriceQuote(buyTokenPath, amountIn) completes; its parameters
\* are (dexId, path, amountIn), so the path it joins is amountIn. When it throws, or
\* reading data.amountsOut throws, line 177 catches; otherwise line 168 pushes the
\* position. Then the loop goes on.
BuyQuoteDone ==
  \E resp \in Responses :
    LET q == GetPriceQuote(AmountIn, resp)
        token == [entry |-> entryIdx, blockchain |-> newEntries[entryIdx]]
    IN /\ pc = "buy"
       /\ buyStage = "quote"
       /\ BuyAdvance(entryIdx,
                     IF QuoteFailed(q) THEN boughtTokens ELSE Append(boughtTokens, token),
                     buyLog)
       /\ UNCHANGED <<manifest, restVars, quotes, newEntries, racePromise, arrivals,
                      tokenToSell, sellLog>>

\* processNewEntries(newEntries, '1000') called by main (line 246) with a non-empty
\* list, run up to its first await: the executeSwap of the first candidate with a
\* mapping, or the race when there is none.
Init ==
  /\ newEntries \in UNION {[1..n -> EntryChains] : n \in 1..MaxEntries}
  /\ entryIdx = NextMapped(newEntries, 1)
  /\ buyStage = "swap"
  /\ buyLog = IF entryIdx <= Len(newEntries)
              THEN <<[entry |-> entryIdx, swap |-> "pending"]>> ELSE <<>>
  /\ boughtTokens = <<>>
  /\ pc = IF entryIdx <= Len(newEntries) THEN "buy" ELSE "race"
  /\ stopLossPercentage = <<>> /\ maxUSDTValue = <<>> /\ mpc = <<>>
  /\ sellState = <<>> /\ swapRejected = <<>>
  /\ manifest = <<>>
  /\ NoSwapUnderTest /\ NoMain
  /\ quotes = <<>>
  /\ racePromise = NoToken /\ arrivals = <<>> /\ tokenToSell = NoToken
  /\ sellLog = <<>>

Next == BuySwapDone \/ BuyQuoteDone

Spec == Init /\ [][Next]_vars

\* ------------------------------------------------ claims on one monitor
\* The successful quote values among the first k responses fed.
OkValues(k) == {quotes[j].v : j \in {j \in 1..k : quotes[j].kind = "ok"}}
SetMax(S) == CHOOSE m \in S : \A x \in S : x <= m
\* The numeric maximum of the quote values observed in the first k polls (0: none).
ObservedMax(k) == IF OkValues(k) = {} THEN 0 ELSE SetMax(OkValues(k))
\* Poll k quotes a value strictly below (1 - f) times the maximum of v_1..v_k.
ShouldTrigger(k) ==
  /\ quotes[k].kind = "ok"
  /\ quotes[k].v * Mille < ObservedMax(k) * (Mille - stopLossPercentage[1])
Failed(resp) == resp.kind # "ok"

\* C1: while the monitor is watching, maxUSDTValue is numerically the maximum of
\* all quote values observed so far (and so never decreases from poll to poll).
C1_HighWaterMarkIsObservedMax ==
  mpc[1] # "returned" => maxUSDTValue[1].v = ObservedMax(Len(quotes))

\* C2: the monitor triggers on the first quote v_i strictly below (1 - f) times the
\* maximum of v_1..v_i and on no earlier quote.
C2_TriggersOnFirstDrop ==
  /\ \A k \in 1..(Len(quotes) - 1) : ~ShouldTrigger(k)
  /\ Len(quotes) > 0 => (mpc[1] = "returned" <=> ShouldTrigger(Len(quotes)))

\* The spec's scenario for C2: the quotes 100, 120, 115, 80 with f = 0.10, after
\* which the monitor has not triggered.
C2_SpecScenarioMissed ==
  /\ stopLossPercentage[1] = 100
  /\ Len(quotes) = 4
  /\ [k \in 1..4 |-> quotes[k].kind] = <<"ok", "ok", "ok", "ok">>
  /\ [k \in 1..4 |-> quotes[k].v] = <<100, 120, 115, 80>>
  /\ mpc[1] # "returned"

\* C3: a poll that quotes v signals a sell iff v < H * (1 - f), H the high-water
\* mark after the poll's update step; v = H * (1 - f) does not trigger.
C3_TriggerIffStrictlyBelow ==
  (Len(quotes) > 0 /\ quotes[Len(quotes)].kind = "ok") =>
    (mpc[1] = "returned" <=>
       quotes[Len(quotes)].v * Mille
         < maxUSDTValue[1].v * (Mille - stopLossPercentage[1]))

\* C3 witness: a quote exactly at the boundary v = H * (1 - f), H > 0, after
\* which the monitor is still watching.
C3_BoundaryQuoteSeen ==
  /\ Len(quotes) > 0
  /\ quotes[Len(quotes)].kind = "ok"
  /\ maxUSDTValue[1].v > 0
  /\ quotes[Len(quotes)].v * Mille
       = maxUSDTValue[1].v * (Mille - stopLossPercentage[1])
  /\ mpc[1] = "sleep"

\* C4: a poll whose quote fetch fails leaves maxUSDTValue unchanged, does not
\* signal a sell and leaves the monitor waiting for its next poll.
C4_FailedPollChangesNothing ==
  [][(Len(quotes') = Len(quotes) + 1 /\ Failed(quotes'[Len(quotes')]))
       => (maxUSDTValue' = maxUSDTValue /\ mpc'[1] = "sleep")]_vars

\* C4 witness: after a successful quote, a run of failed polls of every kind, and
\* the monitor is polling again with the high-water mark of the successful quote.
C4_FailuresThenPollingAgain ==
  /\ Len(quotes) = 4
  /\ quotes[1].kind = "ok"
  /\ {quotes[k].kind : k \in 2..4} = {"throw", "nodata", "short"}
  /\ maxUSDTValue[1] = Str(quotes[1].v)
  /\ mpc[1] = "fetch"

\* ------------------------------------------------- claims on a batch
\* The number of sellToken calls made for token t.
SellCalls(t) == Cardinality({k \in DOMAIN sellLog : sellLog[k] = t})
Ended == pc \in {"done", "rejected"}

\* C5: the primary trigger is selected at most once per batch and is the token whose
\* trigger arrived first: tokenToSell, once assigned, is the first arrival, and the
\* first sellToken call of the batch, and no other, is made for it.
C5_OnePrimaryFirstArrival ==
  /\ tokenToSell = NoToken => sellLog = <<>>
  /\ tokenToSell # NoToken =>
       /\ arrivals # <<>> /\ tokenToSell = arrivals[1]
       /\ sellLog # <<>> /\ sellLog[1] = tokenToSell
       /\ \A k \in 2..Len(sellLog) : sellLog[k] # tokenToSell

\* C5 witness: two monitors have triggered, the first of them was taken as the
\* primary and the whole batch has been sold.
C5_TwoTriggersOneWinner ==
  /\ pc = "done"
  /\ Len(arrivals) >= 2
  /\ racePromise = tokenToSell

\* C6: once the primary sell has completed and processNewEntries has ended, every
\* position of the batch has had exactly one sellToken call.
C6_EveryPositionSoldOnce ==
  (Ended /\ tokenToSell # NoToken /\ sellState[tokenToSell] = "returned")
    => \A t \in Tokens : SellCalls(t) = 1

\* C7: when processNewEntries has ended after a trigger, also by a failed sell, a
\* sell has been attempted for every position of the batch.
C7_FailedSellBlocksNoOther ==
  (Ended /\ tokenToSell # NoToken) => \A t \in Tokens : SellCalls(t) >= 1

\* C8: once a sell is triggered for a position (its monitor returned the sell
\* signal, or sellToken was called for it), its monitor polls no more, its
\* high-water mark does not change and sellToken is not called for it again.
C8_SingleTrigger ==
  [][\A t \in Tokens :
       /\ (mpc[t] = "returned" \/ SellCalls(t) > 0)
            => (mpc'[t] = mpc[t] /\ maxUSDTValue'[t] = maxUSDTValue[t])
       /\ SellCalls(t) > 0
            => Cardinality({k \in DOMAIN sellLog' : sellLog'[k] = t}) = SellCalls(t)]_vars

\* C9: sellToken does not complete normally for a position whose approval or swap
\* the swap service rejected.
C9_RejectedSwapIsFailure ==
  \A t \in Tokens : sellState[t] = "returned" => ~swapRejected[t]

\* --------------------------------------------- claims on the acquisition
\* The loop body is over for the k-th executeSwap call of the loop.
BuyOver(k) == pc # "buy" \/ entryIdx > buyLog[k].entry

\* C10: every candidate with a complete mapping whose buy swap completed without
\* error has a position in boughtTokens once its loop iteration is over.
C10_BoughtCandidateHasPosition ==
  \A k \in DOMAIN buyLog :
    (buyLog[k].swap = "returned" /\ BuyOver(k))
      => \E j \in DOMAIN boughtTokens : boughtTokens[j].entry = buyLog[k].entry

\* The executeSwap calls of the loop made for candidate k, and its positions.
BuyCalls(k) == {j \in DOMAIN buyLog : buyLog[j].entry = k}
Positions(k) == {j \in DOMAIN boughtTokens : boughtTokens[j].entry = k}

\* The part of C11 on failures: the batch never rejects in the buy loop, a candidate
\* without a mapping gets no executeSwap call and no position, a candidate whose buy
\* throws gets no position, and once the loop is over every candidate with a mapping
\* has had exactly one executeSwap call.
C11_FailuresAreContained ==
  /\ pc # "rejected"
  /\ \A k \in DOMAIN newEntries :
       /\ ~Mapped(newEntries[k]) => (BuyCalls(k) = {} /\ Positions(k) = {})
       /\ (pc # "buy" /\ Mapped(newEntries[k])) => Cardinality(BuyCalls(k)) = 1
  /\ \A j \in DOMAIN buyLog : buyLog[j].swap = "threw" => Positions(buyLog[j].entry) = {}

\* C11: a candidate without a mapping or with a failed buy yields no buy attempt
\* (without a mapping), no position and no error out of the batch, and every other
\* candidate is still processed: bought and, when its buy succeeded, monitored.
C11_CandidatesIsolated ==
  /\ C11_FailuresAreContained
  /\ pc # "buy" =>
       \A j \in DOMAIN buyLog :
         buyLog[j].swap = "returned" =>
           \E t \in Positions(buyLog[j].entry) : t \in Tokens /\ mpc[t] # "none"

\* The tokens whose sellToken call has started and not ended.
InFlightSells == {t \in Tokens : sellState[t] \in {"swap", "quote"}}

\* C12: the sells of a batch never overlap: at most one sellToken call is in flight,
\* the first call is the one for tokenToSell, a call starts only after every earlier
\* call has returned, and no token gets a second call.
C12_SellsNeverOverlap ==
  /\ Cardinality(InFlightSells) <= 1
  /\ sellLog # <<>> => sellLog[1] = tokenToSell
  /\ \A j \in 1..(Len(sellLog) - 1) : sellState[sellLog[j]] = "returned"
  /\ \A j, k \in DOMAIN sellLog : sellLog[j] = sellLog[k] => j = k

\* The sweep is selling its second token after the primary sell and the sweep's
\* first sell returned.
C12_SweepSellsInTurn ==
  /\ pc = "sweep"
  /\ Len(sellLog) = 3
  /\ sellState[sellLog[1]] = "returned" /\ sellState[sellLog[2]] = "returned"
  /\ sellState[sellLog[3]] \in {"swap", "quote"}

EntriesOf(t) == {j \in DOMAIN manifest : manifest[j].address = ContractAddress}

\* C16: once all sells of a batch have completed, what processNewEntries has put out
\* has, for every position of the batch, exactly one entry that names the position,
\* and the entry gives an amount.
C16_ManifestCoversBatch ==
  pc = "done" =>
    \A t \in Tokens :
      /\ Cardinality(EntriesOf(t)) = 1
      /\ \A j \in EntriesOf(t) : manifest[j].amount.t # "undefined"

\* C18: when sellToken has been called for a token of the batch, some monitor of the
\* batch has returned its sell signal, and it did so before the first call.
C18_NoSellBeforeTrigger ==
  (\E t \in Tokens : sellState[t] # "none") =>
    /\ \E u \in Tokens : mpc[u] = "returned"
    /\ arrivals # <<>> /\ racePromise = arrivals[1]

\* The first sellToken call of a batch is in flight.
C18_FirstSellStarted ==
  pc = "sellPrimary" /\ sellLog = <<tokenToSell>> /\ sellState[tokenToSell] = "swap"

\* C19: a poll that changes maxUSDTValue does not return the sell signal, and neither
\* does a successful poll made while maxUSDTValue is still the initial 0.
C19_RaisingPollNeverTriggers ==
  [][/\ maxUSDTValue'[1] # maxUSDTValue[1] => mpc'[1] # "returned"
     /\ (/\ maxUSDTValue[1] = Num(0)
         /\ Len(quotes') > Len(quotes)
         /\ quotes'[Len(quotes')].kind = "ok") => mpc'[1] # "returned"]_vars

\* The second poll has raised the mark from the first quote to its own, a higher one,
\* and the monitor is at its delay.
C19_MarkRaisedStillWatching ==
  /\ Len(quotes) = 2
  /\ quotes[1].kind = "ok" /\ quotes[2].kind = "ok"
  /\ quotes[2].v > quotes[1].v
  /\ maxUSDTValue[1] = Str(quotes[2].v)
  /\ mpc[1] = "sleep"

\* ------------------------------------------------ one executeSwap under test
\* No processNewEntries is running.
NoBatch ==
  /\ stopLossPercentage = <<>> /\ maxUSDTValue = <<>> /\ mpc = <<>>
  /\ quotes = <<>>
  /\ newEntries = <<>> /\ entryIdx = 0 /\ buyStage = "swap" /\ buyLog = <<>>
  /\ boughtTokens = <<>>
  /\ pc = "none"
  /\ racePromise = NoToken /\ arrivals = <<>> /\ tokenToSell = NoToken
  /\ sellLog = <<>> /\ sellState = <<>> /\ swapRejected = <<>>
  /\ manifest = <<>>

\* executeSwap(path, amountIn) is called; the swap service will answer as swapCall
\* says.
InitSwap ==
  /\ swapCall \in SwapOutcomes
  /\ swapResult = NoResult
  /\ NoBatch /\ NoMain

\* expandswap.js 141-170: the call runs to its end, a return or a throw.
ExecuteSwapDone ==
  LET r == ExecuteSwap(swapCall)
  IN /\ swapResult.running
     /\ swapResult' = [threw |-> r.threw, approved |-> r.approved, sent |-> r.sent,
                       accepted |-> r.accepted, rejected |-> r.rejected, running |-> FALSE]
     /\ UNCHANGED <<monitorVars, quotes, buyVars, pc, sellVars, manifest, swapCall,
                    mainVars>>

NextSwap == ExecuteSwapDone

SpecSwap == InitSwap /\ [][NextSwap]_vars

\* C17: executeSwap hands the swap transaction to sendTransaction only when the
\* approval succeeded, and when the approval was rejected or threw, it submits no
\* swap transaction and throws.
C17_SwapOnlyAfterApproval ==
  ~swapResult.running =>
    /\ swapResult.sent => swapResult.approved
    /\ swapCall.approve # "ok" => (~swapResult.sent /\ swapResult.threw)

\* The part of C17 on an approval that throws: no swap transaction is submitted and
\* executeSwap throws.
C17_ThrowingApprovalStopsSwap ==
  (~swapResult.running /\ swapCall.approve = "throw") =>
    (~swapResult.sent /\ swapResult.threw)

\* ------------------------------------------------------------------- main
\* Discovery cycles of main.
MaxCycles == 2
\* Candidates the scraper returns in one cycle.
MaxScraped == 2

\* The blockchains of the scraped candidates: one with every mapping, one without a
\* chain id.
ScrapedChains == {"Polygon", "Solana"}

\* How one run of the scraper ends (lines 38-48):
\*   exit     : the process closes with a non-zero code, scrape rejects
\*   malformed: JSON.parse of its output throws, scrape rejects
\*   null     : the output is the JSON null, scrape resolves with null
\*   list     : the output is a JSON array of candidates, scrape resolves with it
ScrapeOutcomes ==
  {[kind |-> k, entries |-> <<>>] : k \in {"exit", "malformed", "null"}}
    \cup {[kind |-> "list", entries |-> e] :
            e \in UNION {[1..n -> ScrapedChains] : n \in 0..MaxScraped}}

\* scrape rejects, and the await of line 241 throws.
ScrapeRejects(o) == o.kind \in {"exit", "malformed"}

\* Line 245, newEntries.length > 0; reading the length of null throws a TypeError.
HasNewEntriesOrNone(o) ==
  [threw |-> o.kind = "null", value |-> o.kind = "list" /\ Len(o.entries) >= 0]
HasNewEntries(o) ==
  [threw |-> o.kind = "null", value |-> o.kind = "list" /\ Len(o.entries) > 0]

\* Line 188 with an awaited race that settles at once when there is no monitor.
AwaitRaceSettlesEmpty(bought) == IF bought = <<>> THEN "rejected" ELSE "race"
\* Line 188: await Promise.race(monitorPromises) stays pending until a monitor
\* promise settles, and over no promise for ever.
AwaitRace(bought) == "race"

\* The processNewEntries call of a cycle: its candidates, the candidate its loop is
\* at, the await the loop body is at, its positions and where it is.
NoCall == [newEntries |-> <<>>, entryIdx |-> 0, buyStage |-> "swap", boughtTokens |-> <<>>,
           pc |-> "none"]

\* The loop of lines 133-180 of call b goes on after its current candidate, with the
\* positions `bought`: executeSwap for the next candidate with a mapping, or line 188.
CallAdvance(b, bought) ==
  LET j == NextMapped(b.newEntries, b.entryIdx + 1)
  IN [newEntries |-> b.newEntries, entryIdx |-> j, buyStage |-> "swap",
      boughtTokens |-> bought,
      pc |-> IF j <= Len(b.newEntries) THEN "buy" ELSE AwaitRace(bought)]

\* processNewEntries(entries, '1000'), run up to its first await.
CallStart(entries) ==
  CallAdvance([newEntries |-> entries, entryIdx |-> 0, buyStage |-> "swap",
               boughtTokens |-> <<>>, pc |-> "buy"], <<>>)

\* Line 246 with the call awaited: main goes on when the call has ended.
AfterInvokeAwaited(b) == IF b.pc \in {"none", "done", "rejected"} THEN "sleep" ELSE "await"
\* Lines 246-255: processNewEntries is called and not awaited, its promise gets the
\* handlers of lines 247-248, and main goes on to the timer of line 255.
AfterInvoke(b) == "sleep"

\* main is started: no cycle yet, the first scrape is running.
InitMain ==
  /\ mainPc = "scrape" /\ cycleLog = <<>> /\ batches = <<>>
  /\ NoBatch /\ NoSwapUnderTest

\* Lines 241-255: the scraper ends. When scrape rejects or line 245 throws, line 252
\* catches; when the list is non-empty processNewEntries is called and runs up to
\* its first await; then main starts the timer of line 255.
ScrapeDone ==
  \E o \in ScrapeOutcomes :
    LET cond == HasNewEntries(o)
        caught == ScrapeRejects(o) \/ cond.threw
        invoked == ~caught /\ cond.value
        b == IF invoked THEN CallStart(o.entries) ELSE NoCall
    IN /\ mainPc = "scrape"
       /\ Len(cycleLog) < MaxCycles
       /\ cycleLog' = Append(cycleLog, [scrape |-> o, caught |-> caught, invoked |-> invoked])
       /\ batches' = Append(batches, b)
       /\ mainPc' = AfterInvoke(b)
       /\ UNCHANGED <<monitorVars, quotes, buyVars, pc, sellVars, manifest, swapVars>>

\* Line 255: the timer fires and the loop starts the next scrape.
SleepDone ==
  /\ mainPc = "sleep"
  /\ mainPc' = "scrape"
  /\ UNCHANGED <<monitorVars, quotes, buyVars, pc, sellVars, manifest, swapVars, cycleLog,
                 batches>>

\* Whether executeSwap can throw, and whether it can return.
SwapThrows == {r.threw : r \in SwapResults}
\* Whether lines 164-165 can throw, and whether they can complete: the quote is
\* asked with amountIn in the place of the path.
BuyQuoteFails == {QuoteFailed(GetPriceQuote(AmountIn, resp)) : resp \in Responses}

\* Line 161 of the call of cycle c: the executeSwap of the buy completes.
CallSwapDone ==
  \E c \in DOMAIN batches, threw \in SwapThrows :
    LET b == batches[c]
    IN /\ b.pc = "buy"
       /\ b.buyStage = "swap"
       /\ batches' = [batches EXCEPT
                        ![c] = IF threw THEN CallAdvance(b, b.boughtTokens)
                               ELSE [b EXCEPT !.buyStage = "quote"]]
       /\ UNCHANGED <<monitorVars, quotes, buyVars, pc, sellVars, manifest, swapVars,
                      mainPc,
                      cycleLog>>

\* Lines 164-179 of the call of cycle c: getPriceQuote(buyTokenPath, amountIn)
\* completes.
CallQuoteDone ==
  \E c \in DOMAIN batches, failed \in BuyQuoteFails :
    LET b == batches[c]
        token == [entry |-> b.entryIdx, blockchain |-> b.newEntries[b.entryIdx]]
    IN /\ b.pc = "buy"
       /\ b.buyStage = "quote"
       /\ batches' = [batches EXCEPT
                        ![c] = CallAdvance(b, IF failed THEN b.boughtTokens
                                              ELSE Append(b.boughtTokens, token))]
       /\ UNCHANGED <<monitorVars, quotes, buyVars, pc, sellVars, manifest, swapVars,
                      mainPc,
                      cycleLog>>

\* No call gets a position (line 164), so no monitor runs and no race settles.
NextMain == ScrapeDone \/ SleepDone \/ CallSwapDone \/ CallQuoteDone

SpecMain == InitMain /\ [][NextMain]_vars

\* main has a step to take: the scraper can end, or the timer can fire.
MainCanStep ==
  /\ mainPc \in {"scrape", "sleep"}
  /\ mainPc = "sleep" => ENABLED SleepDone
  /\ (mainPc = "scrape" /\ Len(cycleLog) < MaxCycles) => ENABLED ScrapeDone

\* C13: main never waits for a processNewEntries call: whatever the calls of the
\* earlier cycles are at, main is at its scrape or at its timer and its next step
\* depends on nothing but the scraper ending or the timer firing.
C13_MainNeverWaitsForBatch ==
  /\ Len(batches) = Len(cycleLog)
  /\ MainCanStep

\* A second cycle has ended while the call of the first cycle is still at its first
\* await.
C13_NextCycleWhileBatchRuns ==
  /\ Len(cycleLog) = 2
  /\ mainPc = "sleep"
  /\ batches[1].pc = "buy" /\ batches[1].buyStage = "swap"
  /\ batches[1].entryIdx = NextMapped(batches[1].newEntries, 1)

\* C14: in every cycle processNewEntries is called iff the scraper returned a
\* non-empty list; otherwise nothing is started for the cycle, a failure of the
\* scraper is caught, and main goes on to its timer and the next cycle.
C14_InvokedIffNonEmptyList ==
  /\ \A c \in DOMAIN cycleLog :
       LET o == cycleLog[c].scrape
       IN /\ cycleLog[c].invoked <=> (o.kind = "list" /\ o.entries # <<>>)
          /\ cycleLog[c].invoked => batches[c].newEntries = o.entries
          /\ ~cycleLog[c].invoked => batches[c] = NoCall
          /\ cycleLog[c].caught <=> o.kind # "list"
  /\ MainCanStep

\* The scraper failed in the first cycle and nothing was started; the second cycle
\* got a non-empty list and called processNewEntries.
C14_FailureThenCandidates ==
  /\ Len(cycleLog) = 2
  /\ cycleLog[1].scrape.kind \in {"exit", "malformed"} /\ batches[1] = NoCall
  /\ cycleLog[2].invoked /\ batches[2].pc # "none"

\* The loop of call c is over and the call has no position.
NoPosition(c) ==
  /\ cycleLog[c].invoked
  /\ batches[c].entryIdx > Len(batches[c].newEntries)
  /\ batches[c].boughtTokens = <<>>

\* C20: a processNewEntries call whose loop ended without a position is at the await
\* of the race and nowhere else (it has neither returned nor rejected), no sellToken
\* call was made, and main has its next step to take.
C20_EmptyRaceNeverSettles ==
  \A c \in DOMAIN batches :
    NoPosition(c) =>
      /\ batches[c].pc = "race"
      /\ sellLog = <<>> /\ manifest = <<>>
      /\ MainCanStep

\* The call of the first cycle tried to buy a candidate, got no position and is at
\* the race, and a later cycle has called processNewEntries again.
C20_StuckCallLaterCycle ==
  /\ Len(cycleLog) = 2
  /\ NoPosition(1) /\ batches[1].pc = "race"
  /\ \E k \in DOMAIN batches[1].newEntries : Mapped(batches[1].newEntries[k])
  /\ cycleLog[2].invoked
====
